---- MODULE Spec2Model ----
(***************************************************************************)
(* Model of src/main.py: the recursive merge_sort over Python lists.       *)
(*                                                                         *)
(* Python lists are objects reached through references, so the model keeps *)
(* a heap of list objects and a call stack of frames holding references    *)
(* (arr, L, R) and cursors (i, j, k).  Each element carries its key (the   *)
(* integer that `<` compares) and the position it had in the input, so     *)
(* that the order of equal keys is observable.                             *)
(***************************************************************************)
EXTENDS Integers, Sequences, FiniteSets

VARIABLES input, heap, stack, phase, round, result1, ncalls, nwrites

vars == <<input, heap, stack, phase, round, result1, ncalls, nwrites>>

\* ---------------------------------------------------------------- bounds
MaxLen == 5
MaxKey == 3

\* ------------------------------------------------------- driver's inputs
sample_array == <<38, 27, 43, 3, 9, 82, 10>>

\* the second concrete scenario of the testable properties, entered at the
\* driver's prompt (line 42)
descending_array == <<5, 4, 3, 2, 1>>

\* user_array: list(map(int, input().split())), any list of integers
user_arrays == UNION {[1..n -> 1..MaxKey] : n \in 0..MaxLen}

Tag(s) == [p \in 1..Len(s) |-> [key |-> s[p], pos |-> p]]

Keys(a) == [p \in 1..Len(a) |-> a[p].key]

\* ------------------------------------------------------- pieces of code
\* line 3: if len(arr) > 1
NeedsSort_ge(n) == n >= 1

NeedsSort(n) == n > 1

\* line 4: mid = len(arr) // 2
Mid_last(n) == n - 1

Mid(n) == n \div 2

\* line 5: L = arr[:mid]
LeftHalf_short(a, mid) == SubSeq(a, 1, mid - 1)

LeftHalf(a, mid) == SubSeq(a, 1, mid)

\* line 6: R = arr[mid:]
RightHalf_skip(a, mid) == SubSeq(a, mid + 2, Len(a))

RightHalf(a, mid) == SubSeq(a, mid + 1, Len(a))

\* line 14: while i < len(L) and j < len(R)
BothInRange_or(i, j, nl, nr) == i < nl \/ j < nr

BothInRange(i, j, nl, nr) == i < nl /\ j < nr

\* line 15: if L[i] < R[j]
TakeLeft_gt(l, r) == l.key > r.key

TakeLeft_self(l, r) == l.key < l.key

TakeLeft(l, r) == l.key < r.key

\* lines 16, 19, 25, 30: the list that `arr[k] = ...` writes, the running
\* invocation's own arr
Dest_outer(s) == s[1].arr

Dest(s) == s[Len(s)].arr

\* arr[k] = v on list object r (cursors are 0-based, sequences 1-based)
Store(h, r, k, v) == [h EXCEPT ![r][k + 1] = v]

Top == stack[Len(stack)]

SetTop(f) == [stack EXCEPT ![Len(stack)] = f]

\* a fresh invocation merge_sort(arr) with arr bound to list object r;
\* L, R and the cursors are unbound (0) until their assignments run
NewFrame(r) ==
  [arr |-> r, L |-> 0, R |-> 0, i |-> 0, j |-> 0, k |-> 0, pc |-> "test",
   entry |-> heap[r], dl |-> 0, dr |-> 0,
   wr |-> [p \in 1..Len(heap[r]) |-> 0]]

\* ------------------------------------------------------------------ Init
Init ==
  /\ \E s \in user_arrays \cup {sample_array, descending_array} :
       input = Tag(s)
  /\ heap = <<input>>
  /\ stack = <<[arr |-> 1, L |-> 0, R |-> 0, i |-> 0, j |-> 0, k |-> 0,
                pc |-> "test", entry |-> input, dl |-> 0, dr |-> 0,
                wr |-> [p \in 1..Len(input) |-> 0]]>>
  /\ phase = "run"
  /\ round = 1
  /\ result1 = <<>>
  /\ ncalls = 0
  /\ nwrites = 0

\* IndexError: the interpreter unwinds, nothing runs afterwards
Crash ==
  /\ phase' = "crashed"
  /\ UNCHANGED <<input, heap, stack, round, result1, ncalls, nwrites>>

\* --------------------------------------------------------------- actions
\* line 3
Test ==
  /\ phase = "run" /\ Top.pc = "test"
  /\ stack' = SetTop([Top EXCEPT !.pc =
                 IF NeedsSort(Len(heap[Top.arr])) THEN "split" ELSE "ret"])
  /\ UNCHANGED <<input, heap, phase, round, result1, ncalls, nwrites>>

\* lines 4-6
Split ==
  /\ phase = "run" /\ Top.pc = "split"
  /\ LET a == heap[Top.arr]
         mid == Mid(Len(a))
     IN /\ heap' = heap \o <<LeftHalf(a, mid), RightHalf(a, mid)>>
        /\ stack' = SetTop([Top EXCEPT !.L = Len(heap) + 1,
                                       !.R = Len(heap) + 2,
                                       !.pc = "callL"])
  /\ UNCHANGED <<input, phase, round, result1, ncalls, nwrites>>

\* line 8
CallL ==
  /\ phase = "run" /\ Top.pc = "callL"
  /\ stack' = Append(SetTop([Top EXCEPT !.pc = "callR"]), NewFrame(Top.L))
  /\ ncalls' = ncalls + 1
  /\ UNCHANGED <<input, heap, phase, round, result1, nwrites>>

\* line 9
CallR ==
  /\ phase = "run" /\ Top.pc = "callR"
  /\ stack' = Append(SetTop([Top EXCEPT !.pc = "cursors"]), NewFrame(Top.R))
  /\ ncalls' = ncalls + 1
  /\ UNCHANGED <<input, heap, phase, round, result1, nwrites>>

\* line 11
Cursors ==
  /\ phase = "run" /\ Top.pc = "cursors"
  /\ stack' = SetTop([Top EXCEPT !.i = 0, !.j = 0, !.k = 0, !.pc = "merge"])
  /\ UNCHANGED <<input, heap, phase, round, result1, ncalls, nwrites>>

\* lines 14-21
MergeLoop ==
  /\ phase = "run" /\ Top.pc = "merge"
  /\ LET f == Top
         l == heap[f.L]
         r == heap[f.R]
         d == Dest(stack)
     IN IF BothInRange(f.i, f.j, Len(l), Len(r))
        THEN IF f.i >= Len(l) \/ f.j >= Len(r) \/ f.k >= Len(heap[d])
             THEN Crash
             ELSE /\ IF TakeLeft(l[f.i + 1], r[f.j + 1])
                     THEN /\ heap' = Store(heap, d, f.k, l[f.i + 1])
                          /\ stack' = SetTop([f EXCEPT !.i = f.i + 1,
                                                !.k = f.k + 1,
                                                !.wr[f.k + 1] = @ + 1])
                     ELSE /\ heap' = Store(heap, d, f.k, r[f.j + 1])
                          /\ stack' = SetTop([f EXCEPT !.j = f.j + 1,
                                                !.k = f.k + 1,
                                                !.wr[f.k + 1] = @ + 1])
                  /\ nwrites' = nwrites + 1
                  /\ UNCHANGED <<input, phase, round, result1, ncalls>>
        ELSE /\ stack' = SetTop([f EXCEPT !.pc = "drainL"])
             /\ UNCHANGED <<input, heap, phase, round, result1, ncalls,
                            nwrites>>

\* lines 24-27
DrainLLoop ==
  /\ phase = "run" /\ Top.pc = "drainL"
  /\ LET f == Top
         l == heap[f.L]
         d == Dest(stack)
     IN IF f.i < Len(l)
        THEN IF f.k >= Len(heap[d])
             THEN Crash
             ELSE /\ heap' = Store(heap, d, f.k, l[f.i + 1])
                  /\ stack' = SetTop([f EXCEPT !.i = f.i + 1, !.k = f.k + 1,
                                        !.dl = f.dl + 1,
                                        !.wr[f.k + 1] = @ + 1])
                  /\ nwrites' = nwrites + 1
                  /\ UNCHANGED <<input, phase, round, result1, ncalls>>
        ELSE /\ stack' = SetTop([f EXCEPT !.pc = "drainR"])
             /\ UNCHANGED <<input, heap, phase, round, result1, ncalls,
                            nwrites>>

\* lines 29-32
DrainRLoop ==
  /\ phase = "run" /\ Top.pc = "drainR"
  /\ LET f == Top
         r == heap[f.R]
         d == Dest(stack)
     IN IF f.j < Len(r)
        THEN IF f.k >= Len(heap[d])
             THEN Crash
             ELSE /\ heap' = Store(heap, d, f.k, r[f.j + 1])
                  /\ stack' = SetTop([f EXCEPT !.j = f.j + 1, !.k = f.k + 1,
                                        !.dr = f.dr + 1,
                                        !.wr[f.k + 1] = @ + 1])
                  /\ nwrites' = nwrites + 1
                  /\ UNCHANGED <<input, phase, round, result1, ncalls>>
        ELSE /\ stack' = SetTop([f EXCEPT !.pc = "ret"])
             /\ UNCHANGED <<input, heap, phase, round, result1, ncalls,
                            nwrites>>

\* line 33: return arr; the invocation's L and R die with its frame
Return ==
  /\ phase = "run" /\ Top.pc = "ret"
  /\ stack' = SubSeq(stack, 1, Len(stack) - 1)
  /\ heap' = IF Top.L = 0 THEN heap ELSE SubSeq(heap, 1, Top.L - 1)
  /\ phase' = IF Len(stack) = 1 THEN "done" ELSE "run"
  /\ UNCHANGED <<input, round, result1, ncalls, nwrites>>

\* merge_sort applied to the list a finished merge_sort returned (the
\* returned reference is the argument list itself)
Resort ==
  /\ phase = "done" /\ round = 1
  /\ round' = 2
  /\ result1' = heap[1]
  /\ stack' = <<NewFrame(1)>>
  /\ phase' = "run"
  /\ ncalls' = 0
  /\ nwrites' = 0
  /\ UNCHANGED <<input, heap>>

Next ==
  \/ Test
  \/ Split
  \/ CallL
  \/ CallR
  \/ Cursors
  \/ MergeLoop
  \/ DrainLLoop
  \/ DrainRLoop
  \/ Return
  \/ Resort

Spec == Init /\ [][Next]_vars

\* the run is sequential and never suspended: every enabled step is taken
FairSpec == Spec /\ WF_vars(Next)

\* ------------------------------------------------------------ properties
Finished == phase = "done"

Result == heap[1]

IsSorted(ks) == \A p, q \in 1..Len(ks) : p < q => ks[p] <= ks[q]

Occurrences(a, v) == Cardinality({p \in 1..Len(a) : a[p].key = v})

RECURSIVE InsertKey(_, _)
InsertKey(ks, v) ==
  IF ks = <<>> THEN <<v>>
  ELSE IF v <= Head(ks) THEN <<v>> \o ks
  ELSE <<Head(ks)>> \o InsertKey(Tail(ks), v)

RECURSIVE Ascending(_)
Ascending(ks) ==
  IF ks = <<>> THEN <<>> ELSE InsertKey(Ascending(Tail(ks)), Head(ks))

RECURSIVE CeilLog2(_)
CeilLog2(n) == IF n <= 1 THEN 0 ELSE 1 + CeilLog2((n + 1) \div 2)

Frames == {stack[d] : d \in 1..Len(stack)}

\* C1: when merge_sort has returned, the sequence is in non-descending
\* order: result[p] <= result[q] for all positions p < q.
C1_SortedOnReturn == Finished => IsSorted(Keys(Result))

C1_Witness ==
  /\ Finished /\ round = 1
  /\ Len(input) >= 3
  /\ ~IsSorted(Keys(input))

\* C2: the returned sequence has the length of the input and every value
\* occurs in it exactly as many times as in the input.
C2_Permutation ==
  Finished =>
    /\ Len(Result) = Len(input)
    /\ \A p \in 1..Len(input) :
         Occurrences(Result, input[p].key) = Occurrences(input, input[p].key)
    /\ \A p \in 1..Len(Result) :
         Occurrences(input, Result[p].key) = Occurrences(Result, Result[p].key)

C2_Witness ==
  /\ Finished /\ round = 1
  /\ Len(input) >= 3
  /\ \E p, q \in 1..Len(input) : p < q /\ input[p].key = input[q].key
  /\ Result # input

\* C3: stability: of two elements with equal keys, the one that was at the
\* lower index of the input is at the lower index of the output.
C3_Stable ==
  (Finished /\ round = 1) =>
    \A p, q \in 1..Len(Result) :
      (p < q /\ Result[p].key = Result[q].key) => Result[p].pos < Result[q].pos

\* C4: on a sequence of length 0 or 1 merge_sort splits nothing, calls
\* nothing, writes nothing, and returns the sequence as it was on entry.
C4_BaseCaseNoWork ==
  Len(input) <= 1 =>
    /\ Len(heap) = 1
    /\ ncalls = 0
    /\ nwrites = 0
    /\ Result = input
    /\ \A f \in Frames : f.L = 0 /\ f.R = 0 /\ f.pc \in {"test", "ret"}

C4_Witness == Finished /\ round = 1 /\ Len(input) = 1

\* C5: sorting the sorted sequence again gives the same integers at every
\* position, and sorting a non-descending input leaves every position
\* unchanged.
C5_Idempotent ==
  /\ (Finished /\ round = 2) => Keys(Result) = Keys(result1)
  /\ (Finished /\ IsSorted(Keys(input))) => Keys(Result) = Keys(input)

C5_Witness ==
  /\ Finished /\ round = 2
  /\ Len(input) >= 3
  /\ ~IsSorted(Keys(input))

\* C6: the sample [38, 27, 43, 3, 9, 82, 10] sorts to
\* [3, 9, 10, 27, 38, 43, 82], [5, 4, 3, 2, 1] to [1, 2, 3, 4, 5], and
\* every input to the ascending ordering of its integers.
C6_EqualsReference ==
  Finished =>
    /\ Keys(input) = sample_array
         => Keys(Result) = <<3, 9, 10, 27, 38, 43, 82>>
    /\ Keys(input) = descending_array => Keys(Result) = <<1, 2, 3, 4, 5>>
    /\ Keys(Result) = Ascending(Keys(input))

C6_Witness == Finished /\ round = 1 /\ Keys(input) = sample_array

\* C7: merge_sort terminates; every recursive call gets a strictly shorter
\* sequence, no sequence of length <= 1 is split, and the nesting depth of
\* the recursive calls is at most ceil(log2 n).
C7_DepthBound ==
  /\ \A d \in 2..Len(stack) :
       Len(heap[stack[d].arr]) < Len(heap[stack[d - 1].arr])
  /\ \A f \in Frames :
       Len(heap[f.arr]) <= 1 => f.L = 0 /\ f.pc \in {"test", "ret"}
  /\ Len(input) >= 1 => Len(stack) - 1 <= CeilLog2(Len(input))

C7_Terminates == []C7_DepthBound /\ <>(Finished /\ round = 2)

C7_Witness ==
  /\ Len(input) >= 4
  /\ Len(stack) - 1 = CeilLog2(Len(input))

\* C8: while both cursors are in range an iteration copies from L exactly
\* when L[i] <= R[j] (a tie is taken from L), advancing that side's cursor
\* and k by one and leaving the other cursor unchanged.
C8_TieFromLeft ==
  [][(/\ phase = "run"
      /\ Top.pc = "merge"
      /\ BothInRange(Top.i, Top.j, Len(heap[Top.L]), Len(heap[Top.R])))
     => LET f == Top
            g == stack'[Len(stack)]
            l == heap[f.L][f.i + 1]
            r == heap[f.R][f.j + 1]
        IN /\ heap'[f.arr][f.k + 1] = IF l.key <= r.key THEN l ELSE r
           /\ g.i = IF l.key <= r.key THEN f.i + 1 ELSE f.i
           /\ g.j = IF l.key <= r.key THEN f.j ELSE f.j + 1
           /\ g.k = f.k + 1]_vars

\* C9: L is a copy of the first floor(n/2) elements and R of the rest; the
\* caller's arr keeps its entry contents while the recursive calls run, and
\* a list is written only by the merge and drain loops of the invocation
\* whose arr it is.
C9_CopiesAtSplit ==
  \A d \in 1..Len(stack) :
    LET f == stack[d]
        n == Len(f.entry)
    IN /\ f.pc = "callL" =>
            /\ heap[f.L] = SubSeq(f.entry, 1, n \div 2)
            /\ heap[f.R] = SubSeq(f.entry, n \div 2 + 1, n)
       /\ f.L # 0 => f.L # f.arr /\ f.R # f.arr /\ f.L # f.R
       /\ (d < Len(stack) \/ f.pc \in {"test", "split", "callL", "callR", "cursors"})
            => heap[f.arr] = f.entry

C9_OnlyOwnerWrites ==
  \A r \in 1..Len(heap) :
    (r <= Len(heap') /\ heap'[r] # heap[r])
      => Top.arr = r /\ Top.pc \in {"merge", "drainL", "drainR"}

C9_CallerUntouched == []C9_CopiesAtSplit /\ [][C9_OnlyOwnerWrites]_vars

C9_Witness ==
  /\ Len(stack) >= 2
  /\ stack[1].pc = "cursors"
  /\ Top.pc = "ret"
  /\ heap[Top.arr] # Top.entry
  /\ heap[1] = input

\* C10: in the merge and drain loops k = i + j, 0 <= i <= len(L),
\* 0 <= j <= len(R) and no write is out of range; after the first loop one
\* side is exhausted, at most one drain loop copies, in order, and at the
\* end i = len(L), j = len(R), k = len(arr) with every position written
\* exactly once.
C10_Cursors ==
  /\ phase # "crashed"
  /\ \A f \in Frames :
       (f.L # 0 /\ f.pc \in {"merge", "drainL", "drainR", "ret"}) =>
         LET a == heap[f.arr]
             l == heap[f.L]
             r == heap[f.R]
         IN /\ f.k = f.i + f.j
            /\ 0 <= f.i /\ f.i <= Len(l)
            /\ 0 <= f.j /\ f.j <= Len(r)
            /\ f.k <= Len(a)
            /\ \A p \in 1..Len(a) : f.wr[p] = IF p <= f.k THEN 1 ELSE 0
            /\ f.pc # "merge" => f.i = Len(l) \/ f.j = Len(r)
            /\ f.dl = 0 \/ f.dr = 0
            /\ \A t \in 1..f.dl : a[f.k - f.dl + t] = l[f.i - f.dl + t]
            /\ \A t \in 1..f.dr : a[f.k - f.dr + t] = r[f.j - f.dr + t]
            /\ f.pc = "drainR" => f.i = Len(l)
            /\ f.pc = "ret" =>
                 /\ f.i = Len(l) /\ f.j = Len(r) /\ f.k = Len(a)
                 /\ \A p \in 1..Len(a) : f.wr[p] = 1

C10_Witness ==
  /\ phase = "run"
  /\ Top.pc = "ret"
  /\ Top.dl >= 2
  /\ Top.k = Len(heap[Top.arr])

====
